---- MODULE Spec2Model ----
(***************************************************************************)
(* PoissonPDF (src/example_poisson.py): a binned Poisson counting model    *)
(* with one parameter of interest.  The object holds three arrays; every   *)
(* method is a function of those arrays and its arguments.                 *)
(*                                                                         *)
(* Numbers.  Array entries are integer-valued; parameters and results are  *)
(* exact rationals <<n, d>> with d > 0 in lowest terms.  A log-likelihood  *)
(* value is nan, -inf, or the real number  lin + log(logarg)  with lin and *)
(* logarg rational (logarg > 0): k*log(mu) - mu - log(k!) is               *)
(* -mu + log(mu^k / k!), and sums of such terms keep that form.            *)
(***************************************************************************)
EXTENDS Integers, Sequences, FiniteSets

VARIABLES signal_yields, background_yields, data, logpdf, made, sampler, last

vars == <<signal_yields, background_yields, data, logpdf, made, sampler, last>>

(***************************************************************************)
(* Bounds and input sets                                                   *)
(***************************************************************************)
MaxBins == 2

SignalValues == {-1, 0, 1, 3}

BackgroundValues == {-1, 0, 2}

CountValues == {0, 1}

Vectors(S) == UNION {[1..n -> S] : n \in 1..MaxBins}

(***************************************************************************)
(* Rational arithmetic                                                     *)
(***************************************************************************)
Abs(x) == IF x < 0 THEN -x ELSE x

RECURSIVE GCD(_, _)
GCD(a, b) == IF b = 0 THEN a ELSE GCD(b, a % b)

Norm(n, d) ==
    LET s == IF d < 0 THEN -1 ELSE 1
        g == GCD(Abs(n), Abs(d))
    IN  <<(s * n) \div g, (s * d) \div g>>

Rat(n) == <<n, 1>>

\* variant: the sign is not flipped
RNegDropped(a) == a

RNeg(a) == <<-a[1], a[2]>>

RAdd(a, b) == Norm(a[1] * b[2] + b[1] * a[2], a[2] * b[2])

RMul(a, b) == Norm(a[1] * b[1], a[2] * b[2])

RDiv(a, b) == Norm(a[1] * b[2], a[2] * b[1])

RLt(a, b) == a[1] * b[2] < b[1] * a[2]

RLe(a, b) == a[1] * b[2] <= b[1] * a[2]

RECURSIVE RPow(_, _)
RPow(a, k) == IF k = 0 THEN Rat(1) ELSE RMul(a, RPow(a, k - 1))

RECURSIVE Factorial(_)
Factorial(k) == IF k <= 1 THEN 1 ELSE k * Factorial(k - 1)

(***************************************************************************)
(* Outcomes of a call: a returned value or a raised exception              *)
(***************************************************************************)
Ok(v) == [kind |-> "ok", val |-> v]

Raise(e) == [kind |-> "raise", val |-> e]

None == [kind |-> "none"]

Array(v) == [kind |-> "array", val |-> v]

(***************************************************************************)
(* numpy                                                                   *)
(***************************************************************************)
\* a > 0 : the elementwise mask
MaskPositive(a) == [i \in 1..Len(a) |-> a[i] > 0]

\* np.any
NpAny(mask) == \E i \in 1..Len(mask) : mask[i]

RECURSIVE Select(_, _, _)
Select(a, mask, i) ==
    IF i > Len(a) THEN <<>>
    ELSE IF mask[i] THEN <<a[i]>> \o Select(a, mask, i + 1)
    ELSE Select(a, mask, i + 1)

\* a[mask] : boolean indexing needs a mask of the array's length
BoolIndex(a, mask) ==
    IF Len(a) # Len(mask) THEN Raise("IndexError") ELSE Ok(Select(a, mask, 1))

\* the shape two one-dimensional arrays broadcast to, 0 when they do not
BroadcastLen(m, n) ==
    IF m = n THEN m ELSE IF m = 1 THEN n ELSE IF n = 1 THEN m ELSE 0

At(a, i) == IF Len(a) = 1 THEN a[1] ELSE a[i]

\* variant: the largest element
RECURSIVE MaxOf(_)
MaxOf(a) ==
    IF Len(a) = 1 THEN a[1]
    ELSE LET m == MaxOf(Tail(a)) IN IF RLt(a[1], m) THEN m ELSE a[1]

RECURSIVE MinOf(_)
MinOf(a) ==
    IF Len(a) = 1 THEN a[1]
    ELSE LET m == MinOf(Tail(a)) IN IF RLt(m, a[1]) THEN m ELSE a[1]

\* np.min : an empty array has no minimum
NpMin(a) == IF Len(a) = 0 THEN Raise("ValueError") ELSE Ok(MinOf(a))

\* np.sum over log-likelihood terms: nan absorbs, then -inf, else the sum
RECURSIVE SumFinite(_, _)
SumFinite(t, i) ==
    IF i > Len(t) THEN [cls |-> "finite", lin |-> Rat(0), logarg |-> Rat(1)]
    ELSE LET r == SumFinite(t, i + 1)
         IN  [cls |-> "finite",
              lin |-> RAdd(t[i].lin, r.lin),
              logarg |-> RMul(t[i].logarg, r.logarg)]

LogZero == [cls |-> "finite", lin |-> Rat(0), logarg |-> Rat(1)]

NaN == [cls |-> "nan", lin |-> Rat(0), logarg |-> Rat(1)]

NegInf == [cls |-> "-inf", lin |-> Rat(0), logarg |-> Rat(1)]

NpSum(t) ==
    IF \E i \in 1..Len(t) : t[i].cls = "nan" THEN NaN
    ELSE IF \E i \in 1..Len(t) : t[i].cls = "-inf" THEN NegInf
    ELSE SumFinite(t, 1)

(***************************************************************************)
(* scipy.stats.poisson                                                     *)
(***************************************************************************)
\* variant: a negative rate is treated as rate 0
PoissonLogpmfClamped(k, mu) ==
    IF k < 0 THEN NegInf
    ELSE IF RLe(mu, Rat(0)) THEN (IF k = 0 THEN LogZero ELSE NegInf)
    ELSE [cls |-> "finite",
          lin |-> RNeg(mu),
          logarg |-> RDiv(RPow(mu, k), Rat(Factorial(k)))]

\* poisson.logpmf(k, mu): nan outside the parameter domain mu >= 0, -inf
\* outside the support, xlogy(k, mu) - gammaln(k + 1) - mu otherwise
PoissonLogpmf(k, mu) ==
    IF RLt(mu, Rat(0)) THEN NaN
    ELSE IF k < 0 THEN NegInf
    ELSE IF mu = Rat(0) THEN (IF k = 0 THEN LogZero ELSE NegInf)
    ELSE [cls |-> "finite",
          lin |-> RNeg(mu),
          logarg |-> RDiv(RPow(mu, k), Rat(Factorial(k)))]

\* counts one draw of poisson.rvs can give in a bin of rate mu
SampleCounts == {0, 1}

PoissonSupport(mu) == IF mu = Rat(0) THEN {0} ELSE SampleCounts

(***************************************************************************)
(* PoissonPDF                                                              *)
(***************************************************************************)
\* the object's attributes
Self ==
    [signal_yields |-> signal_yields,
     background_yields |-> background_yields,
     data |-> data]

\* __init__ stores its three arguments and checks nothing
PoissonPDF(s, b, d) ==
    Ok([signal_yields |-> s, background_yields |-> b, data |-> d])

\* a method that assigns to no attribute: the object as it was, and the outcome
Pure(self, r) == [self |-> self, ret |-> r]

\* variant: any non-zero signal counts
IsAliveNonZero(self) == \E i \in 1..Len(self.signal_yields) : self.signal_yields[i] # 0

IsAlive(self) == NpAny(MaskPositive(self.signal_yields))

ModelConfig(poi_index, minimum_poi, suggested_init, suggested_bounds) ==
    [poi_index |-> poi_index,
     minimum_poi |-> minimum_poi,
     suggested_init |-> suggested_init,
     suggested_bounds |-> suggested_bounds]

Ratios(b, s) == [i \in 1..Len(b) |-> RDiv(Rat(b[i]), Rat(s[i]))]

\* variant: the flag is ignored
LowerBoundUnclamped(allow_negative_signal, min_poi) == min_poi

\* min_poi if allow_negative_signal else 0.0
LowerBound(allow_negative_signal, min_poi) ==
    IF allow_negative_signal THEN min_poi ELSE Rat(0)

Config(self, allow_negative_signal, poi_upper_bound) ==
    LET mask == MaskPositive(self.signal_yields)
        b == BoolIndex(self.background_yields, mask)
        s == BoolIndex(self.signal_yields, mask)
    IN  IF b.kind = "raise" THEN b
        ELSE LET m == NpMin(Ratios(b.val, s.val))
             IN  IF m.kind = "raise" THEN m
                 ELSE LET min_poi == RNeg(m.val)
                      IN  Ok(ModelConfig(0, min_poi, <<Rat(0)>>,
                             << <<LowerBound(allow_negative_signal, min_poi),
                                  poi_upper_bound>> >>))

\* variant: the last parameter scales the signal
RatesLastPar(self, pars) ==
    LET n == BroadcastLen(Len(self.signal_yields), Len(self.background_yields))
    IN  IF n = 0 THEN Raise("ValueError")
        ELSE Ok([i \in 1..n |->
                   RAdd(RMul(pars[Len(pars)], Rat(At(self.signal_yields, i))),
                        Rat(At(self.background_yields, i)))])

\* pars[0] * self.signal_yields + self.background_yields
Rates(self, pars) ==
    LET n == BroadcastLen(Len(self.signal_yields), Len(self.background_yields))
    IN  IF n = 0 THEN Raise("ValueError")
        ELSE Ok([i \in 1..n |->
                   RAdd(RMul(pars[1], Rat(At(self.signal_yields, i))),
                        Rat(At(self.background_yields, i)))])

ExpectedData(self, pars) == Rates(self, pars)

\* variant: the regimes' data sources are swapped
GetLogpdfFuncSwapped(self, expected, d) ==
    LET current_data ==
            IF expected = "apriori" THEN self.data ELSE self.background_yields
    IN  [self |-> self,
         ret |-> Ok([kind |-> "closure",
                     data |-> IF d.kind = "none" THEN current_data ELSE d.val])]

\* variant: the chosen data is stored in self.data
GetLogpdfFuncStoring(self, expected, d) ==
    LET current_data ==
            IF expected = "apriori" THEN self.background_yields ELSE self.data
        chosen == IF d.kind = "none" THEN current_data ELSE d.val
    IN  [self |-> [self EXCEPT !.data = chosen],
         ret |-> Ok([kind |-> "closure", data |-> chosen])]

\* get_logpdf_func rebinds its local name data, never self.data; the lambda
\* closes over that local and reads the yields through self when called
GetLogpdfFunc(self, expected, d) ==
    LET current_data ==
            IF expected = "apriori" THEN self.background_yields ELSE self.data
    IN  [self |-> self,
         ret |-> Ok([kind |-> "closure",
                     data |-> IF d.kind = "none" THEN current_data ELSE d.val])]

\* lambda pars: np.sum(poisson.logpmf(data, pars[0] * signal + background))
Logpdf(self, f, pars) ==
    LET mu == Rates(self, pars)
    IN  IF mu.kind = "raise" THEN mu
        ELSE LET n == BroadcastLen(Len(f.data), Len(mu.val))
             IN  IF n = 0 THEN Raise("ValueError")
                 ELSE Ok(NpSum([i \in 1..n |->
                            PoissonLogpmf(At(f.data, i), At(mu.val, i))]))

GetSampler(self, pars) == [kind |-> "closure", pars |-> pars]

\* poisson.rvs(mu, size=(sample_size, len(self.signal_yields))): the set of
\* outcomes; the rates must lie in the domain and broadcast to the size
Sampler(self, f, sample_size) ==
    LET mu == Rates(self, f.pars)
        n == Len(self.signal_yields)
    IN  IF mu.kind = "raise" THEN {mu}
        ELSE IF \E i \in 1..Len(mu.val) : RLt(mu.val[i], Rat(0))
             THEN {Raise("ValueError")}
        ELSE IF Len(mu.val) # n /\ Len(mu.val) # 1 THEN {Raise("ValueError")}
        ELSE {Ok(m) : m \in [1..sample_size ->
                               {r \in [1..n -> SampleCounts] :
                                  \A i \in 1..n : r[i] \in PoissonSupport(At(mu.val, i))}]}

(***************************************************************************)
(* Arguments the caller passes                                             *)
(***************************************************************************)
ExpectationType == {"observed", "apriori", "aposteriori"}

POIValues == {Rat(-2), Rat(-1), <<-1, 2>>, Rat(0), Rat(1)}

ParVectors == {<<p>> : p \in POIValues} \cup {<<Rat(1), Rat(3)>>}

SamplerPars == {<<Rat(-1)>>, <<Rat(0)>>, <<Rat(1)>>}

UpperBounds == {Rat(10), Rat(1)}

DataArgs ==
    {None} \cup {Array([i \in 1..n |-> c]) : n \in 1..MaxBins, c \in CountValues}

SampleSizes == {0, 1}

(***************************************************************************)
(* State machine: the object after construction, then calls on it          *)
(***************************************************************************)
Constructed(m) ==
    /\ m.kind = "ok"
    /\ signal_yields = m.val.signal_yields
    /\ background_yields = m.val.background_yields
    /\ data = m.val.data
    /\ logpdf = None
    /\ made = None
    /\ sampler = None
    /\ last = [op |-> "none"]

\* arrays of one common length, any values
InitAligned ==
    \E n \in 1..MaxBins :
        \E s \in [1..n -> SignalValues], b \in [1..n -> BackgroundValues],
           d \in [1..n -> CountValues] :
            Constructed(PoissonPDF(s, b, d))

\* arrays of any lengths
InitRagged ==
    \E s \in Vectors({0, 1}), b \in Vectors({0, 2}), d \in Vectors({1}) :
        Constructed(PoissonPDF(s, b, d))

Init == InitAligned \/ InitRagged

\* the call returns (or raises): the object is what the method left
Returns(op, args, r) ==
    /\ signal_yields' = r.self.signal_yields
    /\ background_yields' = r.self.background_yields
    /\ data' = r.self.data
    /\ last' = [op |-> op, args |-> args, ret |-> r.ret]

IsAliveCall ==
    /\ Returns("is_alive", <<>>, Pure(Self, Ok(IsAlive(Self))))
    /\ UNCHANGED <<logpdf, made, sampler>>

ConfigCall(allow, upper) ==
    /\ Returns("config", [allow_negative_signal |-> allow, poi_upper_bound |-> upper],
               Pure(Self, Config(Self, allow, upper)))
    /\ UNCHANGED <<logpdf, made, sampler>>

ExpectedDataCall(pars) ==
    /\ Returns("expected_data", [pars |-> pars], Pure(Self, ExpectedData(Self, pars)))
    /\ UNCHANGED <<logpdf, made, sampler>>

GetLogpdfFuncCall(expected, d) ==
    LET r == GetLogpdfFunc(Self, expected, d)
    IN  /\ Returns("get_logpdf_func", [expected |-> expected, data |-> d], r)
        /\ logpdf' = r.ret.val
        /\ made' = [kind |-> "made", expected |-> expected, data |-> d]
        /\ UNCHANGED sampler

LogpdfCall(pars) ==
    /\ logpdf.kind = "closure"
    /\ Returns("logpdf", [pars |-> pars], Pure(Self, Logpdf(Self, logpdf, pars)))
    /\ UNCHANGED <<logpdf, made, sampler>>

GetSamplerCall(pars) ==
    /\ Returns("get_sampler", [pars |-> pars], Pure(Self, Ok(GetSampler(Self, pars))))
    /\ sampler' = GetSampler(Self, pars)
    /\ UNCHANGED <<logpdf, made>>

SamplerCall(sample_size) ==
    /\ sampler.kind = "closure"
    /\ \E r \in Sampler(Self, sampler, sample_size) :
           Returns("sampler", [sample_size |-> sample_size], Pure(Self, r))
    /\ UNCHANGED <<logpdf, made, sampler>>

\* one call on a fresh object, and a call of the closure it returned
Fresh == last.op = "none"

Next ==
    \/ Fresh /\ IsAliveCall
    \/ Fresh /\ \E allow \in BOOLEAN, upper \in UpperBounds : ConfigCall(allow, upper)
    \/ Fresh /\ \E pars \in ParVectors : ExpectedDataCall(pars)
    \/ Fresh /\ \E expected \in ExpectationType, d \in DataArgs :
                    GetLogpdfFuncCall(expected, d)
    \/ last.op = "get_logpdf_func" /\ \E pars \in ParVectors : LogpdfCall(pars)
    \/ Fresh /\ \E pars \in SamplerPars : GetSamplerCall(pars)
    \/ last.op = "get_sampler" /\ \E n \in SampleSizes : SamplerCall(n)

Spec == Init /\ [][Next]_vars

(***************************************************************************)
(* A session: any sequence of calls on one object, the caller keeping the  *)
(* latest log-likelihood closure and the latest sampler                    *)
(***************************************************************************)
SessionPars == {<<Rat(-1)>>, <<Rat(0)>>, <<Rat(1)>>}

SessionData == {None, Array(<<0, 1>>)}

InitSession ==
    \E s \in {<<0, 0>>, <<1, 3>>, <<3, 0>>, <<1>>}, b \in {<<2, 2>>, <<0, 2>>, <<2>>},
       d \in {<<1, 0>>, <<0>>} :
        Constructed(PoissonPDF(s, b, d))

NextSession ==
    \/ IsAliveCall
    \/ \E allow \in BOOLEAN, upper \in UpperBounds : ConfigCall(allow, upper)
    \/ \E pars \in SessionPars : ExpectedDataCall(pars)
    \/ \E expected \in ExpectationType, d \in SessionData :
           GetLogpdfFuncCall(expected, d)
    \/ \E pars \in SessionPars : LogpdfCall(pars)
    \/ \E pars \in SessionPars : GetSamplerCall(pars)
    \/ \E n \in SampleSizes : SamplerCall(n)

SpecSession == InitSession /\ [][NextSession]_vars

(***************************************************************************)
(* Properties                                                              *)
(***************************************************************************)
Bins == 1..Len(signal_yields)

\* signal and background describe the same bins
SameBins == Len(signal_yields) = Len(background_yields)

SomePositiveSignal == \E i \in Bins : signal_yields[i] > 0

NonNegativeYields ==
    /\ \A i \in Bins : signal_yields[i] >= 0
    /\ \A i \in 1..Len(background_yields) : background_yields[i] >= 0

\* q = -min over the bins i with signal > 0 of background[i] / signal[i]
IsNegMinRatio(q) ==
    \E i \in Bins :
        /\ signal_yields[i] > 0
        /\ q[1] * signal_yields[i] = -background_yields[i] * q[2]
        /\ \A j \in Bins :
               signal_yields[j] > 0 =>
                   background_yields[i] * signal_yields[j]
                       <= background_yields[j] * signal_yields[i]

\* p * signal[i] + background[i] as a fraction over the denominator of p
RateNum(p, i) == p[1] * signal_yields[i] + background_yields[i] * p[2]

IsRate(q, p, i) == q[1] * p[2] = RateNum(p, i) * q[2]

POIGrid == {Norm(n, d) : n \in -7..4, d \in {1, 2, 3}}

\* C1: with at least one bin of positive signal, config(True, U) returns
\* poi_index 0, suggested_init [0.0], minimum_poi = -min(background/signal)
\* over the bins of positive signal only, and the single bounds pair
\* (minimum_poi, U).
C1_ConfigAllowNegative ==
    (last.op = "config" /\ last.args.allow_negative_signal
        /\ SameBins /\ SomePositiveSignal) =>
        /\ last.ret.kind = "ok"
        /\ last.ret.val.poi_index = 0
        /\ last.ret.val.suggested_init = <<Rat(0)>>
        /\ IsNegMinRatio(last.ret.val.minimum_poi)
        /\ last.ret.val.suggested_bounds =
               << <<last.ret.val.minimum_poi, last.args.poi_upper_bound>> >>

C1_Witness ==
    /\ last.op = "config" /\ last.args.allow_negative_signal
    /\ SameBins /\ last.ret.kind = "ok"
    /\ \E i, j \in Bins : signal_yields[i] = 0 /\ signal_yields[j] > 0
    /\ last.ret.val.minimum_poi[1] < 0

C3_ConfigRaisesDegenerateModel ==
    (last.op = "config" /\ SameBins /\ NonNegativeYields /\ ~SomePositiveSignal) =>
        (last.ret.kind = "raise" /\ last.ret.val = "DegenerateModel")

\* C4: no model object exists whose three arrays differ in length.
C4_LengthsEqual ==
    /\ Len(signal_yields) = Len(background_yields)
    /\ Len(background_yields) = Len(data)

\* the data vector the claims say the closure evaluates against
ChosenData ==
    IF made.data.kind = "array" THEN made.data.val
    ELSE IF made.expected = "apriori" THEN background_yields
    ELSE data

\* the closure's data has one count per bin
DataPerBin == SameBins /\ Len(logpdf.data) = Len(signal_yields)

RateAt(pars, i) ==
    RAdd(RMul(pars[1], Rat(signal_yields[i])), Rat(background_yields[i]))

\* C5: the closure evaluates against the explicit data argument when one is
\* given, else background_yields under apriori, else the stored data; its
\* value is the sum over the bins of logpmf(data[i]; pars[0]*signal[i] +
\* background[i]) whatever the regime, and observed and aposteriori build
\* the same closure.
C5_LogpdfData ==
    /\ made.kind = "made" => logpdf.data = ChosenData
    /\ \A d \in DataArgs :
           GetLogpdfFunc(Self, "observed", d) = GetLogpdfFunc(Self, "aposteriori", d)
    /\ (last.op = "logpdf" /\ DataPerBin) =>
           /\ last.ret.kind = "ok"
           /\ last.ret.val =
                  NpSum([i \in Bins |->
                           PoissonLogpmf(ChosenData[i], RateAt(last.args.pars, i))])

C5_Witness ==
    /\ last.op = "logpdf" /\ DataPerBin
    /\ made.expected = "apriori" /\ made.data.kind = "none"
    /\ background_yields # data
    /\ last.ret.kind = "ok" /\ last.ret.val.cls = "finite"
    /\ last.ret.val.logarg # Rat(1)

BadBin(pars, i) ==
    RLe(RateAt(pars, i), Rat(0)) /\ logpdf.data[i] > 0

NegativeRate(pars) == \E i \in Bins : RLt(RateAt(pars, i), Rat(0))

C7_ClampedEveryModel ==
    (last.op = "config" /\ ~last.args.allow_negative_signal
        /\ SameBins /\ NonNegativeYields) =>
        /\ last.ret.kind = "ok"
        /\ last.ret.val.suggested_bounds =
               << <<Rat(0), last.args.poi_upper_bound>> >>
        /\ IsNegMinRatio(last.ret.val.minimum_poi)

\* C7 as amended: for every model with at least one bin of positive signal,
\* config(False, U) returns the single bounds pair (0.0, U) and minimum_poi
\* = -min(background/signal), unclamped, of either sign.
C7_ClampedLowerBound ==
    (last.op = "config" /\ ~last.args.allow_negative_signal
        /\ SameBins /\ SomePositiveSignal) =>
        /\ last.ret.kind = "ok"
        /\ last.ret.val.suggested_bounds =
               << <<Rat(0), last.args.poi_upper_bound>> >>
        /\ IsNegMinRatio(last.ret.val.minimum_poi)

C7_Witness ==
    /\ last.op = "config" /\ ~last.args.allow_negative_signal
    /\ SameBins /\ last.ret.kind = "ok"
    /\ last.ret.val.minimum_poi[1] < 0
    /\ last.ret.val.suggested_bounds[1][1] = Rat(0)

\* C8: expected_data(pars) has one entry per bin, entry i equal to
\* pars[0]*signal[i] + background[i]; later entries of pars do not matter.
C8_ExpectedData ==
    (last.op = "expected_data" /\ SameBins) =>
        /\ last.ret.kind = "ok"
        /\ Len(last.ret.val) = Len(signal_yields)
        /\ \A i \in Bins : IsRate(last.ret.val[i], last.args.pars[1], i)
        /\ last.ret = ExpectedData(Self, <<last.args.pars[1]>>)

C8_Witness ==
    /\ last.op = "expected_data" /\ SameBins
    /\ Len(last.args.pars) = 2
    /\ Len(signal_yields) = 2 /\ signal_yields[1] # signal_yields[2]
    /\ last.ret.kind = "ok" /\ last.ret.val[1] # last.ret.val[2]

C10_Frame ==
    [][LET before == Self
           after == [signal_yields |-> signal_yields',
                     background_yields |-> background_yields',
                     data |-> data']
       IN  /\ after = before
           /\ \A allow \in BOOLEAN, upper \in UpperBounds :
                  Config(after, allow, upper) = Config(before, allow, upper)
           /\ \A pars \in SessionPars :
                  /\ ExpectedData(after, pars) = ExpectedData(before, pars)
                  /\ logpdf.kind = "closure" =>
                         Logpdf(after, logpdf, pars) = Logpdf(before, logpdf, pars)]_vars

C10_Witness ==
    /\ last.op = "logpdf" /\ last.ret.kind = "ok"
    /\ made.data.kind = "array"
    /\ sampler.kind = "closure"

====
